---- MODULE Spec2Model ----
(***************************************************************************)
(* Model of the TPP precondition-enforcement pass                          *)
(* (lib/Standalone/TppEnforcePrecondition.cpp) and of the TPP operation    *)
(* traits (lib/TPP/Dialect/Tpp/TppTraits.cpp).                             *)
(*                                                                         *)
(* The pass part is a state machine: the function body is a sequence of    *)
(* operations, the greedy driver keeps a worklist of linalg.generic        *)
(* operations and applies PadSIMDDimensionForGemm::matchAndRewrite to one  *)
(* of them per step.  The trait part applies the two verifiers to          *)
(* operations drawn from bounded sets.                                     *)
(***************************************************************************)
EXTENDS Integers, Sequences, FiniteSets, TLC

VARIABLES
    ops,        \* the function body: operations in creation order
    returns,    \* the values the function returns (the uses of the results)
    worklist,   \* the driver's stack of linalg.generic operations to visit
    changed,    \* a rewrite happened in the current walk of the body
    status,     \* "running" | "done" | "aborted" (an assertion or a trap)
    last,       \* the outcome of the last pattern application
    build,      \* assert() compiled in or NDEBUG; the order of the walk
    verifyOp,   \* trait part: the operand types of the operation under check
    verdict     \* trait part: the results of the two verifiers on verifyOp

vars ==
    <<ops, returns, worklist, changed, status, last, build, verifyOp, verdict>>

----------------------------------------------------------------------------
(* Bounds of the model *)

\* C's trailing (SIMD) extent ranges over 1..MaxN, plus the large extents
MaxN == 17
\* C's leading (parallel) extent ranges over 1..MaxM, plus the large extents
MaxM == 7
\* number of linalg.generic operations in the initial function body
MaxOps == 2
\* the static extents of the shapes handed to the verifiers are 1..MaxExtent
MaxExtent == 5

(* Program constants *)
SimdTile == 16
ParallelTile == 6
\* significand width of the IEEE binary32 the code casts the extent to
FloatBits == 24

\* extents beyond 2^24, where (float)int64 is no longer exact
LargeDims == {2^FloatBits + 1, 2^FloatBits + 9}

ElemTypes == {"f32", "i32", "index"}

----------------------------------------------------------------------------
(* Types and values *)

TensorType(shape, elem) == [shaped |-> TRUE, shape |-> shape, elem |-> elem]

ScalarType(elem) == [shaped |-> FALSE, shape |-> <<>>, elem |-> elem]

\* def = 0: a block argument; def = i > 0: the result of ops[i]
Val(def, type) == [def |-> def, type |-> type]

NoAttr == [v |-> "none", of |-> "none"]

\* the fields every operation record carries; a kind uses those it needs
BlankOp ==
    [kind |-> "none", operands |-> <<>>, type |-> ScalarType("none"),
     value |-> NoAttr, low |-> <<>>, high |-> <<>>, nofold |-> FALSE,
     offsets |-> <<>>, sizes |-> <<>>, strides |-> <<>>,
     libraryCall |-> "", tensorSem |-> FALSE, staticShape |-> FALSE,
     tppMark |-> FALSE, erased |-> FALSE, origin |-> "input"]

\* linalg.generic with operands (A, B, C); its result has C's type
GenericOp(A, B, C, lib, tensorSem, static, mark, origin) ==
    [BlankOp EXCEPT !.kind = "generic", !.operands = <<A, B, C>>,
                    !.type = C.type, !.libraryCall = lib,
                    !.tensorSem = tensorSem, !.staticShape = static,
                    !.tppMark = mark, !.origin = origin]

\* arith.constant of the given type holding the given attribute
ConstantOp(elem, attr) ==
    [BlankOp EXCEPT !.kind = "constant", !.type = ScalarType(elem),
                    !.value = attr, !.origin = "rewrite"]

\* tensor.extract_slice
ExtractSliceOp(source, offsets, sizes, strides) ==
    [BlankOp EXCEPT !.kind = "slice", !.operands = <<source>>,
                    !.type = TensorType(sizes, source.type.elem),
                    !.offsets = offsets, !.sizes = sizes,
                    !.strides = strides, !.origin = "rewrite"]

----------------------------------------------------------------------------
(* Arithmetic of the padded extent *)

RECURSIVE Log2(_)
\* floor(log2(n)) for n >= 1
Log2(n) == IF n < 2 THEN 0 ELSE 1 + Log2(n \div 2)

\* (float)n for an int64 n >= 0: round to nearest, ties to even, on a
\* significand of FloatBits bits
ToFloat(n) ==
    IF n < 2^FloatBits THEN n
    ELSE LET ulp == 2^(Log2(n) - (FloatBits - 1))
             q   == n \div ulp
             r   == n % ulp
         IN  IF 2 * r < ulp THEN q * ulp
             ELSE IF 2 * r > ulp THEN (q + 1) * ulp
             ELSE IF q % 2 = 0 THEN q * ulp ELSE (q + 1) * ulp

\* std::ceil(x / d) for an integral x >= 0; the double division and the
\* product are exact on the extents of the model
CeilDiv(x, d) == (x + d - 1) \div d

\* mutant: pads by one whole tile instead of up to the next multiple
PaddedExtentPlusTile(dim, tile) == dim + tile

\* tile * std::ceil((float)dim / tile.0)
PaddedExtent(dim, tile) == tile * CeilDiv(ToFloat(dim), tile)

----------------------------------------------------------------------------
(* Fill attributes *)

\* Builder::getZeroAttr on an element type
getZeroAttr(type) ==
    IF type \in ElemTypes THEN [v |-> "zero", of |-> type]
    ELSE [v |-> "null", of |-> type]

getOneAttr(type) ==
    IF type = "f32" THEN [v |-> "one", of |-> type]
    ELSE IF type = "index" THEN [v |-> "one", of |-> type]
    ELSE IF type = "i32" THEN [v |-> "one", of |-> type]
    ELSE [v |-> "null", of |-> type]

----------------------------------------------------------------------------
(* Shape reads *)

\* shape[i] with the code's 0-based index; a read past the end of the
\* ArrayRef (possible only without assertions) yields the value oob
At(shape, i, oob) == IF i + 1 <= Len(shape) THEN shape[i + 1] ELSE oob

\* tensor.pad of source up to type: low padding 0, high padding the
\* difference of the extents, in every dimension of type
createPadHighOp(type, source, pad, nofold, oob) ==
    [BlankOp EXCEPT !.kind = "pad", !.operands = <<source, pad>>,
                    !.type = type,
                    !.low = [d \in 1..Len(type.shape) |-> 0],
                    !.high = [d \in 1..Len(type.shape) |->
                                type.shape[d] - At(source.type.shape, d - 1, oob)],
                    !.nofold = nofold, !.origin = "rewrite"]

----------------------------------------------------------------------------
(* PadSIMDDimensionForGemm *)

\* rw = [ops, A, B, C]: the body being built and the GemmOperands;
\* ub = [c, a, trap]: what a read past the end of C's or A's shape yields
padSIMDDimension(rw, simdDim, ub) ==
    IF simdDim % SimdTile = 0 THEN rw
    ELSE LET paddedSimd == PaddedExtent(simdDim, SimdTile)
             shapeB     == rw.B.type.shape
             shapeC     == rw.C.type.shape
             newShapeC  == <<At(shapeC, 0, ub.c), paddedSimd>>
             newShapeB  == <<At(shapeB, 0, ub.c), paddedSimd>>
             newRankedC == TensorType(newShapeC, rw.C.type.elem)
             newRankedB == TensorType(newShapeB, rw.B.type.elem)
             n          == Len(rw.ops)
             padZero    == Val(n + 1, ScalarType(rw.C.type.elem))
             padOne     == Val(n + 2, ScalarType(rw.B.type.elem))
             paddedC    == Val(n + 3, newRankedC)
             paddedB    == Val(n + 4, newRankedB)
         IN  [rw EXCEPT
                !.ops = rw.ops \o
                   << ConstantOp(rw.C.type.elem, getZeroAttr(rw.C.type.elem)),
                      ConstantOp(rw.B.type.elem, getOneAttr(rw.B.type.elem)),
                      createPadHighOp(newRankedC, rw.C, padZero, FALSE, ub.c),
                      createPadHighOp(newRankedB, rw.B, padOne, FALSE, ub.c) >>,
                !.C = paddedC,
                !.B = paddedB]

padParallelDimension(rw, parallelDim, ub) ==
    IF parallelDim % ParallelTile = 0 THEN rw
    ELSE LET paddedParallel == PaddedExtent(parallelDim, ParallelTile)
             shapeA     == rw.A.type.shape
             shapeC     == rw.C.type.shape
             newShapeC  == <<paddedParallel, At(shapeC, 1, ub.c)>>
             newShapeA  == <<paddedParallel, At(shapeA, 1, ub.a)>>
             newRankedC == TensorType(newShapeC, rw.C.type.elem)
             newRankedA == TensorType(newShapeA, rw.A.type.elem)
             n          == Len(rw.ops)
             padZero    == Val(n + 1, ScalarType(rw.C.type.elem))
             padOne     == Val(n + 2, ScalarType(rw.B.type.elem))
             paddedC    == Val(n + 3, newRankedC)
             paddedA    == Val(n + 4, newRankedA)
         IN  [rw EXCEPT
                !.ops = rw.ops \o
                   << ConstantOp(rw.C.type.elem, getZeroAttr(rw.C.type.elem)),
                      ConstantOp(rw.B.type.elem, getOneAttr(rw.B.type.elem)),
                      createPadHighOp(newRankedC, rw.C, padZero, FALSE, ub.c),
                      createPadHighOp(newRankedA, rw.A, padOne, FALSE, ub.a) >>,
                !.C = paddedC,
                !.A = paddedA]

\* every use of the result of ops[i] among the operands of the body g
ReplaceUsesInOps(g, i, by) ==
    [j \in 1..Len(g) |->
        [g[j] EXCEPT !.operands =
            [u \in 1..Len(g[j].operands) |->
                IF g[j].operands[u].def = i THEN by ELSE g[j].operands[u]]]]

\* every use of the result of ops[i] among the returned values
ReplaceUsesInReturns(rets, i, by) ==
    [j \in 1..Len(rets) |-> IF rets[j].def = i THEN by ELSE rets[j]]

\* mutant: the reduction extents of A and B are not compared
GemmShapesAgreeButReduction(shapeA, shapeB, shapeC) ==
    /\ Len(shapeC) = 2
    /\ Len(shapeB) = 2
    /\ Len(shapeA) = 2
    /\ shapeC[2] = shapeB[2]
    /\ shapeC[1] = shapeA[1]

\* the ranks are 2 and the three extents agree: the six assertions
GemmShapesAgree(shapeA, shapeB, shapeC) ==
    /\ Len(shapeC) = 2
    /\ Len(shapeB) = 2
    /\ Len(shapeA) = 2
    /\ shapeC[2] = shapeB[2]
    /\ shapeC[1] = shapeA[1]
    /\ shapeA[2] = shapeB[1]

\* the outcome of a pattern application on body g with returned values rets
Outcome(result, g, rets) == [result |-> result, ops |-> g, returns |-> rets]

\* mutant: the slice takes the extents of the padded C
replaceWithPaddedSizes(rw, rets, i, shapeC, mark) ==
    LET replacementOp ==
            GenericOp(rw.A, rw.B, rw.C, "tpp.matmul", TRUE, TRUE, mark,
                      "rewrite")
        n       == Len(rw.ops)
        rank    == Len(shapeC)
        offsets == [r \in 1..rank |-> 0]
        strides == [r \in 1..rank |-> 1]
        sizes   == rw.C.type.shape
        extractOp ==
            ExtractSliceOp(Val(n + 1, rw.C.type), offsets, sizes, strides)
        extract == Val(n + 2, extractOp.type)
    IN  CHOOSE out \in
            {Outcome("success",
                     [ReplaceUsesInOps(created, i, extract)
                         EXCEPT ![i].erased = TRUE],
                     ReplaceUsesInReturns(rets, i, extract)) :
               created \in {rw.ops \o <<replacementOp, extractOp>>}} : TRUE

\* the tail of padDimensions: the new linalg.generic over the operands
\* rw.A, rw.B, rw.C, the slice of its result down to shapeC, and the
\* replacement of ops[i] by the slice
replaceWithPadded(rw, rets, i, shapeC, mark) ==
    LET replacementOp ==
            GenericOp(rw.A, rw.B, rw.C, "tpp.matmul", TRUE, TRUE, mark,
                      "rewrite")
        n       == Len(rw.ops)
        rank    == Len(shapeC)
        offsets == [r \in 1..rank |-> 0]
        strides == [r \in 1..rank |-> 1]
        sizes   == [r \in 1..rank |-> shapeC[r]]
        extractOp ==
            ExtractSliceOp(Val(n + 1, rw.C.type), offsets, sizes, strides)
        extract == Val(n + 2, extractOp.type)
    IN  CHOOSE out \in
            {Outcome("success",
                     [ReplaceUsesInOps(created, i, extract)
                         EXCEPT ![i].erased = TRUE],
                     ReplaceUsesInReturns(rets, i, extract)) :
               created \in {rw.ops \o <<replacementOp, extractOp>>}} : TRUE

\* padDimensions on g[i]; mark is what hasTppMark will answer on the new
\* operation, ub what reads past the end of a shape yield
padDimensions(g, rets, i, bld, ub, mark) ==
    LET linalgOp == g[i]
        A == linalgOp.operands[1]
        B == linalgOp.operands[2]
        C == linalgOp.operands[3]
    IN
    IF ~C.type.shaped \/ ~B.type.shaped \/ ~A.type.shaped
    THEN Outcome("failure", g, rets)
    ELSE
    LET shapeC == C.type.shape
        shapeB == B.type.shape
        shapeA == A.type.shape
    IN
    IF bld.asserts /\ ~GemmShapesAgree(shapeA, shapeB, shapeC)
    THEN Outcome("abort", g, rets)
    ELSE
    LET simdDim     == At(shapeC, 1, ub.c)
        parallelDim == At(shapeC, 0, ub.c)
    IN
    IF Len(shapeC) < 2 /\ ub.trap
    THEN Outcome("abort", g, rets)
    ELSE IF (simdDim % SimdTile = 0) /\ (parallelDim % ParallelTile = 0)
    THEN Outcome("failure", g, rets)
    ELSE IF parallelDim % ParallelTile # 0 /\ Len(shapeA) < 2 /\ ub.trap
    THEN Outcome("abort", g, rets)
    ELSE
    \* (each step is bound through a singleton set, so that it is
    \* evaluated once)
    CHOOSE out \in
        {replaceWithPadded(rw2, rets, i, shapeC, mark) :
           rw2 \in {padParallelDimension(rw1, parallelDim, ub) :
              rw1 \in {padSIMDDimension(rw0, simdDim, ub) :
                 rw0 \in {[ops |-> g, A |-> A, B |-> B, C |-> C]}}}} : TRUE

\* mutant: the library call is not compared with tpp.matmul
matchAndRewriteAnyCall(g, rets, i, bld, ub, mark) ==
    LET linalgOp == g[i] IN
    IF ~linalgOp.tensorSem \/ ~linalgOp.staticShape \/ ~linalgOp.tppMark
    THEN Outcome("failure", g, rets)
    ELSE padDimensions(g, rets, i, bld, ub, mark)

matchAndRewrite(g, rets, i, bld, ub, mark) ==
    LET linalgOp == g[i] IN
    IF ~linalgOp.tensorSem \/ ~linalgOp.staticShape \/ ~linalgOp.tppMark
    THEN Outcome("failure", g, rets)
    ELSE IF linalgOp.libraryCall # "tpp.matmul"
    THEN Outcome("failure", g, rets)
    ELSE padDimensions(g, rets, i, bld, ub, mark)

----------------------------------------------------------------------------
(* TppTraits: broadcast compatibility *)

\* ShapedType::kDynamic, the extent of a dimension that is not known
Dyn == -1

isDynamic(dim) == dim = Dyn

\* a trait operand type; strides and layoutOk describe a memref's layout
OperandType(shaped, shape, layoutOk, strides) ==
    [shaped |-> shaped, shape |-> shape, layoutOk |-> layoutOk,
     strides |-> strides]

getShape(type) == IF type.shaped THEN type.shape ELSE <<>>

\* ArrayRef::take_back(n)
take_back(shape, n) ==
    IF n >= Len(shape) THEN shape
    ELSE SubSeq(shape, Len(shape) - n + 1, Len(shape))

\* one aligned pair of extents of OpTrait::util::getBroadcastedShape:
\* the broadcast extent, or "bad"
BroadcastDim(d1, d2) ==
    IF isDynamic(d1) \/ isDynamic(d2)
    THEN IF d1 > 1 THEN d1
         ELSE IF d2 > 1 THEN d2
         ELSE IF d1 = 1 THEN d2
         ELSE IF d2 = 1 THEN d1
         ELSE Dyn
    ELSE IF d1 = d2 \/ d2 = 1 THEN d1
         ELSE IF d1 = 1 THEN d2
         ELSE -2

\* OpTrait::util::getBroadcastedShape: the shapes are aligned at their
\* trailing ends; the longer one supplies the leading extents
getBroadcastedShape(shape1, shape2) ==
    LET n1 == Len(shape1)
        n2 == Len(shape2)
        n  == IF n1 > n2 THEN n1 ELSE n2
        e1(j) == shape1[j - (n - n1)]
        e2(j) == shape2[j - (n - n2)]
        res == [j \in 1..n |->
                  IF j <= n - n1 THEN e2(j)
                  ELSE IF j <= n - n2 THEN e1(j)
                  ELSE BroadcastDim(e1(j), e2(j))]
        ok == \A j \in 1..n : res[j] # -2
    IN  [ok |-> ok, shape |-> IF ok THEN res ELSE <<>>]

\* mutant: an existing extent of 1 is tolerated as well
isCompatibleEitherOne(dim1, dim2) ==
    dim1 = dim2 \/ isDynamic(dim1) \/ isDynamic(dim2) \/ dim1 = 1 \/ dim2 = 1

\* the lambda of isCompatibleInferredReturnShape
isCompatible(dim1, dim2) ==
    dim1 = dim2 \/ isDynamic(dim1) \/ isDynamic(dim2) \/ dim1 = 1

isCompatibleInferredReturnShape(inferred, existing) ==
    IF Len(inferred) # Len(existing) THEN FALSE
    ELSE \A p \in 1..Len(inferred) : isCompatible(inferred[p], existing[p])

RECURSIVE BroadcastFrom(_, _, _)
\* the loop over inputTypes from position idx on, resultShape so far
BroadcastFrom(inputTypes, idx, resultShape) ==
    IF idx > Len(inputTypes) THEN [ok |-> TRUE, shape |-> resultShape]
    ELSE LET temp == resultShape
             b == getBroadcastedShape(temp, getShape(inputTypes[idx]))
         IN  IF ~b.ok THEN [ok |-> FALSE, shape |-> <<>>]
             ELSE BroadcastFrom(inputTypes, idx + 1, b.shape)

verifyCompatibleOperandBroadcast(inputTypes, outputType) ==
    IF Len(inputTypes) = 0 THEN "success"
    ELSE LET first == getBroadcastedShape(getShape(inputTypes[1]), <<>>)
             b == BroadcastFrom(inputTypes, 1, first.shape)
         IN  IF ~b.ok THEN "failure"
             ELSE LET resultShape == b.shape
                      actualSuffix ==
                          take_back(getShape(outputType), Len(resultShape))
                  IN  IF ~isCompatibleInferredReturnShape(resultShape,
                                                          actualSuffix)
                      THEN "failure"
                      ELSE "success"

\* the inputs are all operands but the last, the output is the last one
verifyBroadcastableShape(operandTypes) ==
    LET inputOperandTypes == SubSeq(operandTypes, 1, Len(operandTypes) - 1)
    IN  verifyCompatibleOperandBroadcast(inputOperandTypes,
                                         operandTypes[Len(operandTypes)])

----------------------------------------------------------------------------
(* TppTraits: unit stride in the innermost dimension *)

\* mlir::getStridesAndOffset(type, strides, offset): fails on a layout that
\* has no strided form; otherwise pushes the strides of type onto the
\* vector it is handed, which it does not clear first
getStridesAndOffset(type, strides) ==
    IF ~type.layoutOk THEN [ok |-> FALSE, strides |-> strides]
    ELSE [ok |-> TRUE, strides |-> strides \o type.strides]

RECURSIVE UnitStrideFrom(_, _, _)
\* the loop over the operands from position idx on; strides is the vector
\* declared before the loop
UnitStrideFrom(operandTypes, idx, strides) ==
    IF idx > Len(operandTypes) THEN "success"
    ELSE LET operandType == operandTypes[idx] IN
         IF ~operandType.shaped THEN "success"
         ELSE LET s == getStridesAndOffset(operandType, strides) IN
              IF ~s.ok THEN "failure"
              ELSE IF s.strides = <<>> THEN "failure"
              ELSE IF s.strides[Len(s.strides)] # 1 THEN "failure"
              ELSE UnitStrideFrom(operandTypes, idx + 1, s.strides)

verifyUnitStrideInnerLoop(operandTypes) ==
    UnitStrideFrom(operandTypes, 1, <<>>)

----------------------------------------------------------------------------
(* The function bodies the pass starts from *)

DimsN == (1..MaxN) \cup LargeDims

DimsM == (1..MaxM) \cup LargeDims

\* a block argument of the given type
Arg(type) == Val(0, type)

\* linalg.generic over A (m,k), B (k,n), C (m,n)
Matmul(m, n, k, eA, eB, eC, lib, tensorSem, static, mark) ==
    GenericOp(Arg(TensorType(<<m, k>>, eA)), Arg(TensorType(<<k, n>>, eB)),
              Arg(TensorType(<<m, n>>, eC)), lib, tensorSem, static, mark,
              "input")

Defects ==
    {"none", "scalarA", "scalarB", "scalarC", "rank1A", "rank1B", "rank1C",
     "rank3A", "rank3B", "rank3C", "neC1B1", "neC0A0", "neA1B0"}

\* operand type t with one extent dropped, one added, or extent d changed
Rank1(t) == [t EXCEPT !.shape = <<t.shape[1]>>]

Rank3(t) == [t EXCEPT !.shape = t.shape \o <<2>>]

Bump(t, d) == [t EXCEPT !.shape[d] = t.shape[d] + 1]

\* op with operand number o given the type f(its type)
WithOperand(op, o, type) == [op EXCEPT !.operands[o].type = type]

\* a generic operation whose operands are not the triple of a 2-d GEMM
Defective(op, d) ==
    LET A == op.operands[1].type
        B == op.operands[2].type
        C == op.operands[3].type
    IN  CASE d = "none"    -> op
          [] d = "scalarA" -> WithOperand(op, 1, ScalarType(A.elem))
          [] d = "scalarB" -> WithOperand(op, 2, ScalarType(B.elem))
          [] d = "scalarC" -> WithOperand(op, 3, ScalarType(C.elem))
          [] d = "rank1A"  -> WithOperand(op, 1, Rank1(A))
          [] d = "rank1B"  -> WithOperand(op, 2, Rank1(B))
          [] d = "rank1C"  -> WithOperand(op, 3, Rank1(C))
          [] d = "rank3A"  -> WithOperand(op, 1, Rank3(A))
          [] d = "rank3B"  -> WithOperand(op, 2, Rank3(B))
          [] d = "rank3C"  -> WithOperand(op, 3, Rank3(C))
          [] d = "neC1B1"  -> WithOperand(op, 2, Bump(B, 2))
          [] d = "neC0A0"  -> WithOperand(op, 1, Bump(A, 1))
          [] d = "neA1B0"  -> WithOperand(op, 1, Bump(A, 2))

\* the result type of a linalg.generic is the type of its output operand
Retyped(op) == [op EXCEPT !.type = op.operands[3].type]

\* eligible well-formed operations of every extent
ShapeFamily ==
    {Matmul(m, n, 3, "f32", "f32", "f32", "tpp.matmul", TRUE, TRUE, TRUE) :
        m \in DimsM, n \in DimsN}

\* eligible operations whose operands are defective
DefectFamily ==
    {Retyped(Defective(
        Matmul(m, n, 3, "f32", "f32", "f32", "tpp.matmul", TRUE, TRUE, TRUE),
        d)) : m \in {5, 6}, n \in {10, 16}, d \in Defects}

\* eligible well-formed operations of every element type
TypeFamily ==
    {Matmul(m, n, 3, eA, eB, eC, "tpp.matmul", TRUE, TRUE, TRUE) :
        m \in {5, 6}, n \in {10, 16},
        eA \in ElemTypes, eB \in ElemTypes, eC \in ElemTypes}

\* well-formed operations of every classification
FlagFamily ==
    {Matmul(m, n, 3, "f32", "f32", "f32", lib, ts, st, mk) :
        m \in {5, 6}, n \in {10, 16},
        lib \in {"tpp.matmul", "tpp.relu", ""},
        ts \in BOOLEAN, st \in BOOLEAN, mk \in BOOLEAN}

FirstOps == ShapeFamily \cup DefectFamily \cup TypeFamily \cup FlagFamily

\* the operation that follows the first one in a body, once or more
NextOp == Matmul(5, 10, 3, "f32", "f32", "f32", "tpp.matmul", TRUE, TRUE, TRUE)

\* the bodies of 1..MaxOps operations that start with an operation of firsts
Bodies(firsts) ==
    UNION {{<<first>> \o [k \in 1..n |-> NextOp] : first \in firsts} :
             n \in 0..(MaxOps - 1)}

InitialBodies == Bodies(FirstOps)

\* the bodies the driver is run on to a fixed point under fairness: the
\* extents on both sides of each tile and beyond 2^24, every defect, every
\* classification
LiveFirstOps ==
    {op \in ShapeFamily :
        /\ op.operands[3].type.shape[1] \in {5, 6} \cup LargeDims
        /\ op.operands[3].type.shape[2] \in {10, 16, 17} \cup LargeDims}
    \cup DefectFamily
    \cup {op \in FlagFamily : op.operands[3].type.shape = <<5, 10>>}

LiveBodies == Bodies(LiveFirstOps)

\* what a read past the end of C's shape (c) or A's shape (a) yields
\* without assertions: some extent, or a trap
UBOutcomes == [c : {3, 16}, a : {3}, trap : BOOLEAN]

NoUB == [c |-> 3, a |-> 3, trap |-> FALSE]

\* the outcomes to consider for a pattern application on op: a read past
\* the end needs assertions off and a shape of rank 1
UBChoices(op, bld) ==
    IF /\ ~bld.asserts
       /\ \E o \in {1, 3} : op.operands[o].type.shaped
                            /\ Len(op.operands[o].type.shape) < 2
    THEN UBOutcomes
    ELSE {NoUB}

\* no run of the model builds a body longer than this
BodyCap == 11 * MaxOps

NoApplication == [op |-> 0, result |-> "none"]

IdleVerdict == [broadcast |-> "none", stride |-> "none"]

----------------------------------------------------------------------------
(* The greedy driver applying the pattern *)

\* the live linalg.generic operations of body g in the order of the walk:
\* the driver pops the back of its worklist
Walk(g, topDown) ==
    LET live == SelectSeq([j \in 1..Len(g) |-> j],
                          LAMBDA j : g[j].kind = "generic" /\ ~g[j].erased)
    IN  IF topDown THEN [k \in 1..Len(live) |-> live[Len(live) + 1 - k]]
        ELSE live

\* the operation the driver visits next
Top == worklist[Len(worklist)]

Pop == SubSeq(worklist, 1, Len(worklist) - 1)

\* the pass starts on one of bodies
InitOn(bodies) ==
    /\ build \in [asserts : BOOLEAN, topDown : BOOLEAN]
    /\ ops \in bodies
    /\ returns = [i \in 1..Len(ops) |-> Val(i, ops[i].type)]
    /\ worklist = Walk(ops, build.topDown)
    /\ changed = FALSE
    /\ status = "running"
    /\ last = NoApplication
    /\ verifyOp = <<>>
    /\ verdict = IdleVerdict

Init == InitOn(InitialBodies)

LiveInit == InitOn(LiveBodies)

\* the pattern does not apply to the operation: it leaves the worklist
ApplyNoMatch ==
    /\ status = "running"
    /\ worklist # <<>>
    /\ \E ub \in UBChoices(ops[Top], build) :
       \E out \in {matchAndRewrite(ops, returns, Top, build, ub, TRUE)} :
         /\ out.result = "failure"
         /\ ops' = out.ops
         /\ returns' = out.returns
    /\ worklist' = Pop
    /\ last' = [op |-> Top, result |-> "failure"]
    /\ UNCHANGED <<changed, status, build, verifyOp, verdict>>

\* the pattern rewrote the operation: the new linalg.generic is pushed
ApplyRewrite ==
    /\ status = "running"
    /\ worklist # <<>>
    /\ \E ub \in UBChoices(ops[Top], build), mark \in BOOLEAN :
       \E out \in {matchAndRewrite(ops, returns, Top, build, ub, mark)} :
         /\ out.result = "success"
         /\ Len(out.ops) <= BodyCap
         /\ ops' = out.ops
         /\ returns' = out.returns
         /\ worklist' = Pop \o <<Len(out.ops) - 1>>
    /\ changed' = TRUE
    /\ last' = [op |-> Top, result |-> "success"]
    /\ UNCHANGED <<status, build, verifyOp, verdict>>

\* an assertion failed, or a read past the end of a shape trapped
ApplyAbort ==
    /\ status = "running"
    /\ worklist # <<>>
    /\ \E ub \in UBChoices(ops[Top], build) :
       \E out \in {matchAndRewrite(ops, returns, Top, build, ub, TRUE)} :
         /\ out.result = "abort"
         /\ ops' = out.ops
         /\ returns' = out.returns
    /\ status' = "aborted"
    /\ last' = [op |-> Top, result |-> "abort"]
    /\ UNCHANGED <<worklist, changed, build, verifyOp, verdict>>

\* the worklist is empty after a walk that changed the body: walk it again
Rewalk ==
    /\ status = "running"
    /\ worklist = <<>>
    /\ changed
    /\ worklist' = Walk(ops, build.topDown)
    /\ changed' = FALSE
    /\ UNCHANGED <<ops, returns, status, last, build, verifyOp, verdict>>

\* the worklist is empty after a walk that changed nothing: fixed point
Converge ==
    /\ status = "running"
    /\ worklist = <<>>
    /\ ~changed
    /\ status' = "done"
    /\ UNCHANGED <<ops, returns, worklist, changed, last, build, verifyOp,
                   verdict>>

Next ==
    \/ ApplyNoMatch
    \/ ApplyRewrite
    \/ ApplyAbort
    \/ Rewalk
    \/ Converge

Spec == Init /\ [][Next]_vars

\* the driver runs until it has converged
FairSpec == LiveInit /\ [][Next]_vars /\ WF_vars(Next)

----------------------------------------------------------------------------
(* The operations handed to the trait verifiers *)

Extents == {Dyn} \cup (1..MaxExtent)

Ranks == {0, 1, 2}

OperandCounts == {1, 2, 3}

ShapesOfRank(r) == [1..r -> Extents]

\* the strides of a memref of rank r in the identity layout end in 1
IdentityStrides(r) == [j \in 1..r |-> IF j = r THEN 1 ELSE 4]

\* a non-shaped operand (a scalar)
ScalarOperand == OperandType(FALSE, <<>>, TRUE, <<>>)

\* memrefs of every shape in the identity layout, and the scalar
BroadcastOperands ==
    {ScalarOperand} \cup
    UNION {{OperandType(TRUE, shape, TRUE, IdentityStrides(r)) :
              shape \in ShapesOfRank(r)} : r \in Ranks}

\* memrefs of every stride sequence, memrefs whose layout has no strided
\* form, and the scalar
StrideOperands ==
    {ScalarOperand} \cup
    UNION {{OperandType(TRUE, [j \in 1..r |-> 4], FALSE, <<>>)} \cup
           {OperandType(TRUE, [j \in 1..r |-> 4], TRUE, st) :
              st \in [1..r -> {1, 4, Dyn}]} : r \in Ranks}

VerifiedOps ==
    UNION {[1..n -> BroadcastOperands] \cup [1..n -> StrideOperands] :
             n \in OperandCounts}

TraitInit ==
    /\ verifyOp \in VerifiedOps
    /\ verdict = IdleVerdict
    /\ build \in [asserts : {TRUE}, topDown : {TRUE}]
    /\ ops = <<>>
    /\ returns = <<>>
    /\ worklist = <<>>
    /\ changed = FALSE
    /\ status = "running"
    /\ last = NoApplication

\* checkBroadcastableShape on the operation
CheckBroadcast ==
    /\ verdict.broadcast = "none"
    /\ verdict' = [verdict EXCEPT !.broadcast = verifyBroadcastableShape(verifyOp)]
    /\ UNCHANGED <<ops, returns, worklist, changed, status, last, build,
                   verifyOp>>

\* checkUnitStrideInnerLoop on the operation
CheckUnitStride ==
    /\ verdict.stride = "none"
    /\ verdict' = [verdict EXCEPT !.stride = verifyUnitStrideInnerLoop(verifyOp)]
    /\ UNCHANGED <<ops, returns, worklist, changed, status, last, build,
                   verifyOp>>

TraitNext == CheckBroadcast \/ CheckUnitStride

TraitSpec == TraitInit /\ [][TraitNext]_vars

----------------------------------------------------------------------------
(* Vocabulary of the properties *)

InputOps == {i \in 1..Len(ops) : ops[i].origin = "input"}

\* the new linalg.generic operations the rewrites created
PaddedOps ==
    {j \in 1..Len(ops) : ops[j].kind = "generic" /\ ops[j].origin = "rewrite"}

PadOps == {j \in 1..Len(ops) : ops[j].kind = "pad"}

\* the four conditions of matchAndRewrite
Eligible(op) ==
    op.tensorSem /\ op.staticShape /\ op.tppMark
    /\ op.libraryCall = "tpp.matmul"

AllShaped(op) == \A o \in 1..3 : op.operands[o].type.shaped

\* shape-typed operands of rank 2 whose extents agree
WellFormed(op) ==
    LET A == op.operands[1].type.shape
        B == op.operands[2].type.shape
        C == op.operands[3].type.shape
    IN  /\ AllShaped(op)
        /\ Len(A) = 2 /\ Len(B) = 2 /\ Len(C) = 2
        /\ C[2] = B[2]
        /\ C[1] = A[1]
        /\ A[2] = B[1]

\* shapeC[1] % 16 == 0 and shapeC[0] % 6 == 0
CompliantC(op) ==
    LET C == op.operands[3].type IN
    /\ C.shaped
    /\ Len(C.shape) >= 2
    /\ C.shape[2] % SimdTile = 0
    /\ C.shape[1] % ParallelTile = 0

\* the least multiple of tile that is >= dim
NextMultiple(dim, tile) == tile * ((dim + tile - 1) \div tile)

\* the step about to be taken applies the pattern to ops[Top]
Applying == status = "running" /\ worklist # <<>>

----------------------------------------------------------------------------
(* C1 *)

\* the pattern reports no match on ops[j], whatever a stray read yields
NoMatchOn(j) ==
    \A ub \in UBChoices(ops[j], build) :
        matchAndRewrite(ops, returns, j, build, ub, TRUE).result = "failure"

\* every initial operation is a 2-d GEMM of shape-typed operands
RankTwoInput == \A i \in InputOps : WellFormed(ops[i])

\* the driver has converged and the pattern matches nothing
Quiescent ==
    /\ status = "done"
    /\ worklist = <<>>
    /\ \A j \in 1..Len(ops) :
         (ops[j].kind = "generic" /\ ~ops[j].erased) => NoMatchOn(j)

\* a padded matmul is never rewritten and answers NoMatch when visited, so
\* there are no more rewrites than initial operations
PaddedIsFixedPoint ==
    /\ \A j \in PaddedOps : ~ops[j].erased /\ NoMatchOn(j)
    /\ Cardinality(PaddedOps) <= Cardinality(InputOps)
    /\ (last.op \in PaddedOps => last.result = "failure")

----------------------------------------------------------------------------
(* C2 *)

\* the cases in which the claim expects NoMatch
NoMatchClaimed(op) == ~Eligible(op) \/ CompliantC(op)

\* the operands are shape-typed and break a rank or an extent assertion of
\* a build that has assertions
AssertionFails(op) ==
    /\ build.asserts
    /\ AllShaped(op)
    /\ ~WellFormed(op)

\* a NoMatch leaves the body and the uses of its results as they were
NoMatchChangesNothing ==
    (Applying /\ last'.result = "failure") => (ops' = ops /\ returns' = returns)

\* C2 as stated: NoMatch changes nothing, and NoMatch is reported for every
\* operation that is not eligible and for every eligible operation whose C
\* shape is compliant.
C2_Original ==
    [][/\ NoMatchChangesNothing
       /\ (Applying /\ NoMatchClaimed(ops[Top]))
             => last'.result = "failure"]_vars

\* C2 amended: as stated, except that a compliant eligible operation whose
\* shape-typed operands break a rank or extent assertion is not reported as
\* NoMatch by a build with assertions (the assertion ends the process).
C2_NoMatchIsSideEffectFree ==
    [][/\ NoMatchChangesNothing
       /\ (Applying /\ NoMatchClaimed(ops[Top])
                   /\ ~(Eligible(ops[Top]) /\ AssertionFails(ops[Top])))
             => last'.result = "failure"
       /\ (Applying /\ Eligible(ops[Top]) /\ CompliantC(ops[Top])
                   /\ AssertionFails(ops[Top]))
             => (last'.result = "abort" /\ ops' = ops /\ returns' = returns)]_vars

\* NoMatch was reported for an eligible well-formed operation whose C shape
\* is compliant, and the body is the initial one
C2_Witness ==
    /\ last.op \in InputOps
    /\ last.result = "failure"
    /\ Eligible(ops[last.op])
    /\ WellFormed(ops[last.op])
    /\ CompliantC(ops[last.op])
    /\ PadOps = {}

----------------------------------------------------------------------------
(* C3 *)

\* the value that replaced the result of initial operation i
Replacement(i) == returns[i]

\* v is the result of a slice of a padded matmul's result with offset 0 and
\* stride 1 everywhere and sizes shape, so of shape shape
IsSliceBackTo(v, shape) ==
    /\ v.def \in 1..Len(ops)
    /\ ops[v.def].kind = "slice"
    /\ ops[v.def].operands[1].def \in PaddedOps
    /\ ops[v.def].operands[1].def = v.def - 1
    /\ ops[v.def].operands[1].type = ops[v.def - 1].type
    /\ ops[v.def].offsets = [r \in 1..Len(shape) |-> 0]
    /\ ops[v.def].strides = [r \in 1..Len(shape) |-> 1]
    /\ ops[v.def].sizes = shape
    /\ ops[v.def].type.shape = shape
    /\ v.type.shape = shape

\* C3: after a successful rewrite the value that replaces the original
\* result is a zero-offset, unit-stride slice of the new matmul's result
\* whose sizes, and so whose shape, are the original C shape.
C3_SliceRestoresOriginalShape ==
    \A i \in InputOps :
        ops[i].erased =>
            IsSliceBackTo(Replacement(i), ops[i].operands[3].type.shape)

\* an operation whose C needed padding in both dimensions was rewritten
C3_Witness ==
    \E i \in InputOps :
        /\ ops[i].erased
        /\ WellFormed(ops[i])
        /\ ops[i].operands[3].type.shape = <<5, 10>>
        /\ ops[Replacement(i).def - 1].operands[3].type.shape = <<6, 16>>
        /\ Replacement(i).type.shape = <<5, 10>>

----------------------------------------------------------------------------
(* C4 *)

\* the new matmul that replaced initial operation i
PaddedFor(i) == ops[Replacement(i).def - 1]

\* C4 as stated: a rewritten triple A (m,k), B (k,n), C (m,n) becomes
\* C (M,N), B (k,N), A (M,k) with N and M the next multiples of 16 and 6;
\* the parallel padding of C starts from the SIMD-padded C; an operand whose
\* dimension needs no padding is passed through; the new extents agree.
C4_Original ==
    \A i \in InputOps :
        (ops[i].erased /\ WellFormed(ops[i])) =>
            LET A == ops[i].operands[1]
                B == ops[i].operands[2]
                C == ops[i].operands[3]
                m == C.type.shape[1]
                n == C.type.shape[2]
                k == A.type.shape[2]
                M == NextMultiple(m, ParallelTile)
                N == NextMultiple(n, SimdTile)
                new == PaddedFor(i)
            IN  /\ new.operands[3].type.shape = <<M, N>>
                /\ new.operands[2].type.shape = <<k, N>>
                /\ new.operands[1].type.shape = <<M, k>>
                /\ (n % SimdTile = 0) => new.operands[2] = B
                /\ (m % ParallelTile = 0) => new.operands[1] = A
                /\ (n % SimdTile # 0 /\ m % ParallelTile # 0) =>
                      ops[new.operands[3].def].operands[1].type.shape = <<m, N>>
                /\ GemmShapesAgree(new.operands[1].type.shape,
                                   new.operands[2].type.shape,
                                   new.operands[3].type.shape)

----------------------------------------------------------------------------
(* C5 *)

\* the constant a pad operation fills with
FillOf(p) == ops[ops[p].operands[2].def]

\* the pad operations on C (they fill with zero) from rank 2 to rank 2
CPads ==
    {p \in PadOps : /\ FillOf(p).value.v = "zero"
                    /\ Len(ops[p].operands[1].type.shape) = 2
                    /\ Len(ops[p].type.shape) = 2}

\* C5 as stated: the SIMD target is a multiple of 16 with
\* target - 16 < c <= target, the parallel target a multiple of 6 with
\* target - 6 < r <= target.
C5_Original ==
    \A p \in CPads :
        LET src == ops[p].operands[1].type.shape
            dst == ops[p].type.shape
        IN  /\ (dst[2] # src[2]) =>
                 /\ dst[2] % SimdTile = 0
                 /\ dst[2] - SimdTile < src[2]
                 /\ src[2] <= dst[2]
            /\ (dst[1] # src[1]) =>
                 /\ dst[1] % ParallelTile = 0
                 /\ dst[1] - ParallelTile < src[1]
                 /\ src[1] <= dst[1]

----------------------------------------------------------------------------
(* C6 *)

\* pad operation p fills with the constant v (zero, one) of the element
\* type of the operand it pads
FillsWithOwn(p, v) ==
    LET elem == ops[p].operands[1].type.elem IN
    /\ FillOf(p).kind = "constant"
    /\ FillOf(p).type.elem = elem
    /\ FillOf(p).value = [v |-> v, of |-> elem]

\* the pad operations that feed operand o of operation j, innermost last
PadsFeeding(j, o) ==
    LET p1 == ops[j].operands[o].def
        p2 == IF p1 \in PadOps THEN ops[p1].operands[1].def ELSE 0
    IN  {p1, p2} \cap PadOps

\* C6 as stated: C is filled with the zero of C's element type, B with the
\* one of B's element type, A with the one of A's element type.
C6_Original ==
    \A j \in PaddedOps :
        /\ \A p \in PadsFeeding(j, 1) : FillsWithOwn(p, "one")
        /\ \A p \in PadsFeeding(j, 2) : FillsWithOwn(p, "one")
        /\ \A p \in PadsFeeding(j, 3) : FillsWithOwn(p, "zero")

----------------------------------------------------------------------------
(* C10 *)

\* the pad operations that keep the rank of what they pad
RankKeepingPads ==
    {p \in PadOps : Len(ops[p].operands[1].type.shape) = Len(ops[p].type.shape)}

\* C10 as stated: every pad operation is a high-side-only extension of
\* exactly one dimension, created with no-fold requested.
C10_Original ==
    \A p \in RankKeepingPads :
        /\ ops[p].nofold
        /\ \A d \in 1..Len(ops[p].low) : ops[p].low[d] = 0
        /\ \A d \in 1..Len(ops[p].high) : ops[p].high[d] >= 0
        /\ Cardinality({d \in 1..Len(ops[p].high) : ops[p].high[d] > 0}) = 1

----------------------------------------------------------------------------
(* C9 *)

RanksAreTwo(op) == \A o \in 1..3 : Len(op.operands[o].type.shape) = 2

\* the step leaves the body and the uses of its results as they were
BodyUnchanged == ops' = ops /\ returns' = returns

\* C9 as stated: on an eligible operation with an operand that is not
\* shape-typed, with a rank other than 2 or with disagreeing extents the
\* pattern fails, rewrites nothing, and the process goes on.
C9_Original ==
    [][(Applying /\ Eligible(ops[Top]) /\ ~WellFormed(ops[Top]))
          => (last'.result = "failure" /\ BodyUnchanged
              /\ status' = "running")]_vars

\* C9 amended: an operand that is not shape-typed makes the pattern fail,
\* with nothing rewritten and the process going on.  Shape-typed operands
\* with a rank other than 2 or disagreeing extents rewrite nothing either in
\* a build with assertions, but there the assertion ends the process
\* instead of returning a failure; without assertions the checks are absent
\* and rank-2 operands are treated by the C shape alone.
C9_PreconditionsAssertNotFail ==
    [][/\ (Applying /\ Eligible(ops[Top]) /\ ~AllShaped(ops[Top]))
            => (last'.result = "failure" /\ BodyUnchanged
                /\ status' = "running")
       /\ (Applying /\ Eligible(ops[Top]) /\ AssertionFails(ops[Top]))
            => (last'.result = "abort" /\ BodyUnchanged
                /\ status' = "aborted")
       /\ (Applying /\ Eligible(ops[Top]) /\ AllShaped(ops[Top])
                    /\ ~WellFormed(ops[Top]) /\ RanksAreTwo(ops[Top])
                    /\ ~build.asserts)
            => IF CompliantC(ops[Top])
               THEN last'.result = "failure" /\ BodyUnchanged
               ELSE last'.result = "success" /\ ops[Top].erased = FALSE
                    /\ ops'[Top].erased]_vars

\* an assertion ended the process on an eligible operation whose extents
\* disagree
C9_Witness ==
    /\ status = "aborted"
    /\ last.result = "abort"
    /\ build.asserts
    /\ Eligible(ops[last.op])
    /\ AllShaped(ops[last.op])
    /\ RanksAreTwo(ops[last.op])
    /\ ~WellFormed(ops[last.op])
    /\ PadOps = {}

----------------------------------------------------------------------------
(* C7 *)

\* the shapes of the inputs (all operands but the last) and of the result
InputShapes == [x \in 1..(Len(verifyOp) - 1) |-> getShape(verifyOp[x])]

DeclaredShape == getShape(verifyOp[Len(verifyOp)])

\* the extent k places from the trailing end
FromBack(shape, k) == shape[Len(shape) + 1 - k]

\* two extents broadcast: equal, or either dynamic, or either 1
ExtentsBroadcast(a, b) ==
    a = b \/ isDynamic(a) \/ isDynamic(b) \/ a = 1 \/ b = 1

ShapesBroadcast(s, t) ==
    \A k \in 1..(IF Len(s) < Len(t) THEN Len(s) ELSE Len(t)) :
        ExtentsBroadcast(FromBack(s, k), FromBack(t, k))

PairwiseCompatible ==
    \A x, y \in 1..Len(InputShapes) :
        ShapesBroadcast(InputShapes[x], InputShapes[y])

\* the rank of the broadcast of the inputs
BroadcastRank ==
    IF Len(InputShapes) = 0 THEN 0
    ELSE CHOOSE r \in {Len(InputShapes[x]) : x \in 1..Len(InputShapes)} :
            \A x \in 1..Len(InputShapes) : Len(InputShapes[x]) <= r

\* the broadcast extent k places from the end: the extent above 1 if an
\* input has one, else dynamic if an input is dynamic there, else 1
BroadcastExtent(k) ==
    LET E == {FromBack(InputShapes[x], k) :
                x \in {y \in 1..Len(InputShapes) : Len(InputShapes[y]) >= k}}
    IN  IF \E e \in E : e > 1 THEN CHOOSE e \in E : e > 1
        ELSE IF Dyn \in E THEN Dyn
        ELSE 1

\* C7 as stated: success iff the inputs are pairwise compatible and the
\* result has at least the broadcast rank with every trailing extent
\* compatible with the computed one by: equal, either dynamic, or either 1.
C7_Original ==
    (verdict.broadcast # "none") =>
        (verdict.broadcast = "success" <=>
            /\ PairwiseCompatible
            /\ Len(DeclaredShape) >= BroadcastRank
            /\ \A k \in 1..BroadcastRank :
                  ExtentsBroadcast(BroadcastExtent(k),
                                   FromBack(DeclaredShape, k)))

\* C7 amended: the broadcast check succeeds iff the inputs are pairwise
\* compatible and the result has at least the broadcast rank with every
\* trailing extent equal to the computed one, or either of the two dynamic,
\* or the computed one 1; a declared 1 against a computed extent above 1
\* fails.
C7_ComputedOneOnly ==
    (verdict.broadcast # "none") =>
        (verdict.broadcast = "success" <=>
            /\ PairwiseCompatible
            /\ Len(DeclaredShape) >= BroadcastRank
            /\ \A k \in 1..BroadcastRank :
                  LET computed == BroadcastExtent(k)
                      declared == FromBack(DeclaredShape, k)
                  IN  \/ computed = declared
                      \/ isDynamic(computed)
                      \/ isDynamic(declared)
                      \/ computed = 1)

\* inputs (3,1) and (1,4) were checked against the result (3,4)
C7_Witness ==
    /\ Len(verifyOp) = 3
    /\ InputShapes = <<(<<3, 1>>), (<<1, 4>>)>>
    /\ DeclaredShape = <<3, 4>>
    /\ verdict.broadcast = "success"

----------------------------------------------------------------------------
(* C8 *)

\* the operands before the first one that is not shaped
Examined ==
    {x \in 1..Len(verifyOp) : \A y \in 1..x : verifyOp[y].shaped}

\* the strides of the operand can be computed, are not empty and end in 1
UnitInnerStride(type) ==
    /\ type.layoutOk
    /\ type.strides # <<>>
    /\ type.strides[Len(type.strides)] = 1

\* C8 as stated: the unit-stride check succeeds iff every operand before
\* the first non-shaped one has computable, non-empty strides ending in 1,
\* and fails otherwise.
C8_Original ==
    (verdict.stride # "none") =>
        /\ verdict.stride \in {"success", "failure"}
        /\ verdict.stride = "success" <=>
              \A x \in Examined : UnitInnerStride(verifyOp[x])

====
